---- MODULE Spec2Model ----
(***************************************************************************)
(* Model of the poker_calculator library (src/src/lib.rs): the packed      *)
(* Card, the HandEvaluation order, the 7-card hand evaluator and the       *)
(* two-hand board enumeration of compute_result.                           *)
(***************************************************************************)
EXTENDS Integers, Sequences, FiniteSets, TLC

(***************************************************************************)
(* Enumerations (discriminants as in the source).                          *)
(***************************************************************************)
Hearts == 0
Diamonds == 1
Clubs == 2
Spades == 3

Two == 2
Three == 3
Four == 4
Five == 5
Six == 6
Seven == 7
Eight == 8
Nine == 9
Ten == 10
Jack == 11
Queen == 12
King == 13
Ace == 14

StraightFlush == 8
FourOfAKind == 7
FullHouse == 6
Flush == 5
Straight == 4
ThreeOfAKind == 3
TwoPair == 2
Pair == 1
HighCard == 0

Suit == Hearts..Spades
Number == Two..Ace
HandKind == HighCard..StraightFlush

\* Option::None of check_for_straight / check_for_three_of_a_kind / check_for_pair.
None == 0

(***************************************************************************)
(* Fixed-width integer helpers: u8 / u16 values are naturals, the bit      *)
(* operators are computed bit by bit.                                      *)
(***************************************************************************)
U16 == 65536

RECURSIVE BitAnd(_, _)
BitAnd(x, y) ==
    IF x = 0 \/ y = 0 THEN 0
    ELSE (x % 2) * (y % 2) + 2 * BitAnd(x \div 2, y \div 2)

BitOr(x, y) == x + y - BitAnd(x, y)

\* !x on a u16
BitNot(x) == (U16 - 1) - x

\* x << n and x >> n on a u16
Shl(x, n) == (x * 2^n) % U16
Shr(x, n) == x \div 2^n

\* x - 1 on a u16 as the release build computes it (wrapping); the debug
\* build panics on 0 - 1, which ClearUnderflows reports.
WrappingDec(x) == (x - 1) % U16

\* x &= x - 1
ClearLowest(x) == BitAnd(x, WrappingDec(x))

\* u16::leading_zeros
RECURSIVE leading_zeros(_)
leading_zeros(x) == IF x = 0 THEN 16 ELSE leading_zeros(x \div 2) - 1

(***************************************************************************)
(* Number::as_bit, Card                                                    *)
(***************************************************************************)
as_bit(n) == 2^n

\* (suit as u8) << 4 | (number as u8), on a u8
Card_new_shift_by_three(s, n) == BitOr((s * 8) % 256, n)

Card_new(s, n) == BitOr((s * 16) % 256, n)

\* self.value & 0xF
Card_number(card) == BitAnd(card, 15)

\* self.value >> 4
Card_suit(card) == Shr(card, 4)

(***************************************************************************)
(* HandEvaluation and its constructors                                     *)
(***************************************************************************)
HandEvaluation(k, v) == [kind |-> k, values |-> v]

new_straight_flush(high_card) == HandEvaluation(StraightFlush, <<high_card, 0, 0>>)

new_four_of_a_kind(high_card, kicker) == HandEvaluation(FourOfAKind, <<high_card, kicker, 0>>)

new_full_house(high_card, low_card) == HandEvaluation(FullHouse, <<high_card, low_card, 0>>)

\* Variant: the two bytes of the bitset stored low byte first.
new_flush_low_byte_first(cards) ==
    HandEvaluation(Flush, <<BitAnd(cards, 255), Shr(cards, 8) % 256, 0>>)

new_flush(cards) == HandEvaluation(Flush, <<Shr(cards, 8) % 256, BitAnd(cards, 255), 0>>)

new_straight(high_card) == HandEvaluation(Straight, <<high_card, 0, 0>>)

\* Variant: the kickers' high byte is not shifted down before the cast, so
\* that both kicker bytes hold the low byte.
new_three_of_a_kind_unshifted(high_card, kickers) ==
    HandEvaluation(ThreeOfAKind, <<high_card, BitAnd(kickers, 255), BitAnd(kickers, 255)>>)

new_three_of_a_kind(high_card, kickers) ==
    HandEvaluation(ThreeOfAKind, <<high_card, Shr(kickers, 8) % 256, BitAnd(kickers, 255)>>)

\* Variant: the two pairs stored lower pair first.
new_two_pair_low_pair_first(high_card, low_card, kicker) ==
    HandEvaluation(TwoPair, <<low_card, high_card, kicker>>)

new_two_pair(high_card, low_card, kicker) == HandEvaluation(TwoPair, <<high_card, low_card, kicker>>)

new_pair(high_card, kickers) ==
    HandEvaluation(Pair, <<high_card, Shr(kickers, 8) % 256, BitAnd(kickers, 255)>>)

new_high_card(cards) == HandEvaluation(HighCard, <<Shr(cards, 8) % 256, BitAnd(cards, 255), 0>>)

\* Variant: the bytes compared before the kind (fields declared in the
\* other order).
cmp_values_first(a, b) ==
    IF a.values[1] # b.values[1] THEN (IF a.values[1] < b.values[1] THEN "Less" ELSE "Greater")
    ELSE IF a.values[2] # b.values[2] THEN (IF a.values[2] < b.values[2] THEN "Less" ELSE "Greater")
    ELSE IF a.values[3] # b.values[3] THEN (IF a.values[3] < b.values[3] THEN "Less" ELSE "Greater")
    ELSE IF a.kind # b.kind THEN (IF a.kind < b.kind THEN "Less" ELSE "Greater")
    ELSE "Equal"

\* #[derive(PartialOrd, Ord)] on HandEvaluation: the fields in declaration
\* order, kind by discriminant, values as an array (lexicographic).
cmp(a, b) ==
    IF a.kind # b.kind THEN (IF a.kind < b.kind THEN "Less" ELSE "Greater")
    ELSE IF a.values[1] # b.values[1] THEN (IF a.values[1] < b.values[1] THEN "Less" ELSE "Greater")
    ELSE IF a.values[2] # b.values[2] THEN (IF a.values[2] < b.values[2] THEN "Less" ELSE "Greater")
    ELSE IF a.values[3] # b.values[3] THEN (IF a.values[3] < b.values[3] THEN "Less" ELSE "Greater")
    ELSE "Equal"

(***************************************************************************)
(* The evaluator's helpers                                                 *)
(***************************************************************************)
SetMax(S) == CHOOSE m \in S : \A e \in S : e <= m
SetMin(S) == CHOOSE m \in S : \A e \in S : m <= e

\* Variant: the Ace is not duplicated below the Two.
check_for_straight_ace_high_only(card_bitset) ==
    LET mask == 31
        hits == {shift_index \in 1..10 :
                    Shr(BitAnd(card_bitset, Shl(mask, shift_index)), shift_index) = mask}
    IN  IF hits = {} THEN None ELSE SetMax(hits) + 4

\* Variant: the windows are scanned upwards, the lowest full window wins.
check_for_straight_ascending(card_bitset) ==
    LET bits == IF BitAnd(card_bitset, as_bit(Ace)) # 0 THEN BitOr(card_bitset, 2) ELSE card_bitset
        mask == 31
        hits == {shift_index \in 1..10 :
                    Shr(BitAnd(bits, Shl(mask, shift_index)), shift_index) = mask}
    IN  IF hits = {} THEN None ELSE SetMin(hits) + 4

\* Returns the high card of the highest 5-bit window that is full, or None.
check_for_straight(card_bitset) ==
    LET bits == IF BitAnd(card_bitset, as_bit(Ace)) # 0 THEN BitOr(card_bitset, 2) ELSE card_bitset
        mask == 31
        hits == {shift_index \in 1..10 :
                    Shr(BitAnd(bits, Shl(mask, shift_index)), shift_index) = mask}
    IN  IF hits = {} THEN None ELSE SetMax(hits) + 4

check_for_three_of_a_kind(count_by_number) ==
    LET hits == {n \in Number : count_by_number[n] = 3}
    IN  IF hits = {} THEN None ELSE SetMax(hits)

check_for_pair(count_by_number) ==
    LET hits == {n \in Number : count_by_number[n] = 2}
    IN  IF hits = {} THEN None ELSE SetMax(hits)

\* Variant: the position of the highest bit counted from one.
highest_card_in_set_counting_from_one(cards) == (16 - leading_zeros(cards)) % 256

\* (15 - cards.leading_zeros()) as u8: the u32 difference truncated to u8
\* (on the empty set the wrapped difference truncates to 255).
highest_card_in_set(cards) == (15 - leading_zeros(cards)) % 256

\* Variant: only a number held exactly twice makes the pair of a full house.
full_house_low_card_exact_pair(count_by_number, three_of_a_kind_number) ==
    LET hits == {n \in Number : n # three_of_a_kind_number /\ count_by_number[n] = 2}
    IN  IF hits = {} THEN None ELSE SetMax(hits)

\* The loop of the full-house check: the highest number other than the
\* triplet's that is held at least twice, or None.
full_house_low_card(count_by_number, three_of_a_kind_number) ==
    LET hits == {n \in Number : n # three_of_a_kind_number /\ count_by_number[n] >= 2}
    IN  IF hits = {} THEN None ELSE SetMax(hits)

\* Variant: the clear step written once, however many bits are to go.
ClearLowestN_once(x, n) == IF n <= 0 THEN x ELSE ClearLowest(x)

\* x &= x - 1, n times over.
RECURSIVE ClearLowestN(_, _)
ClearLowestN(x, n) == IF n <= 0 THEN x ELSE ClearLowestN(ClearLowest(x), n - 1)

\* Variant: number_bitset is assigned, not or-ed, so that it holds the last
\* card only.
RECURSIVE Tally_assigning(_, _, _)
Tally_assigning(cards, i, t) ==
    IF i > Len(cards) THEN t
    ELSE LET suit == Card_suit(cards[i])
             number == Card_number(cards[i])
         IN  Tally_assigning(cards, i + 1,
                [count_by_suit |-> [t.count_by_suit EXCEPT ![suit] = @ + 1],
                 count_by_number |-> [t.count_by_number EXCEPT ![number] = @ + 1],
                 number_bitset |-> as_bit(number),
                 number_by_suit_bitset |->
                    [t.number_by_suit_bitset EXCEPT ![suit] = BitOr(@, as_bit(number))]])

\* The first loop of evaluate_hand: the cards from position i on are added
\* to the tallies t.
RECURSIVE Tally(_, _, _)
Tally(cards, i, t) ==
    IF i > Len(cards) THEN t
    ELSE LET suit == Card_suit(cards[i])
             number == Card_number(cards[i])
         IN  Tally(cards, i + 1,
                [count_by_suit |-> [t.count_by_suit EXCEPT ![suit] = @ + 1],
                 count_by_number |-> [t.count_by_number EXCEPT ![number] = @ + 1],
                 number_bitset |-> BitOr(t.number_bitset, as_bit(number)),
                 number_by_suit_bitset |->
                    [t.number_by_suit_bitset EXCEPT ![suit] = BitOr(@, as_bit(number))]])

\* The tallies before the loop.
ZeroTally ==
    [count_by_suit |-> [s \in 0..3 |-> 0],
     count_by_number |-> [n \in 0..14 |-> 0],
     number_bitset |-> 0,
     number_by_suit_bitset |-> [s \in 0..3 |-> 0]]

\* Variant: the ranks of all suits land in every suit's bitset.
Tallies_one_bitset_for_all_suits(cards) ==
    LET t == Tally(cards, 1, ZeroTally)
    IN  [t EXCEPT !.number_by_suit_bitset = [s \in 0..3 |-> t.number_bitset]]

Tallies(cards) == Tally(cards, 1, ZeroTally)

evaluate_hand(cards) ==
    LET t == Tallies(cards)
        count_by_suit == t.count_by_suit
        count_by_number == t.count_by_number
        number_bitset == t.number_bitset
        number_by_suit_bitset == t.number_by_suit_bitset
        sf_suits == {s \in Suit : check_for_straight(number_by_suit_bitset[s]) # None}
        quads == {n \in Number : count_by_number[n] = 4}
        three_of_a_kind == check_for_three_of_a_kind(count_by_number)
        low_card_of_house == full_house_low_card(count_by_number, three_of_a_kind)
        flush_suits == {s \in Suit : count_by_suit[s] >= 5}
        straight == check_for_straight(number_bitset)
        pair == check_for_pair(count_by_number)
        low_pairs == {n \in Two..(pair - 1) : count_by_number[n] = 2}
    IN  IF sf_suits # {}
        THEN new_straight_flush(check_for_straight(number_by_suit_bitset[SetMin(sf_suits)]))
        ELSE IF quads # {}
        THEN LET high_card == SetMax(quads)
             IN  new_four_of_a_kind(high_card,
                    highest_card_in_set(BitAnd(number_bitset, BitNot(as_bit(high_card)))))
        ELSE IF three_of_a_kind # None /\ low_card_of_house # None
        THEN new_full_house(three_of_a_kind, low_card_of_house)
        ELSE IF flush_suits # {}
        THEN LET s == SetMin(flush_suits)
             IN  new_flush(ClearLowestN(number_by_suit_bitset[s], count_by_suit[s] - 5))
        ELSE IF straight # None
        THEN new_straight(straight)
        ELSE IF three_of_a_kind # None
        THEN new_three_of_a_kind(three_of_a_kind,
                ClearLowestN(BitAnd(number_bitset, BitNot(as_bit(three_of_a_kind))), 2))
        ELSE IF pair # None
        THEN IF low_pairs # {}
             THEN LET low_card == SetMax(low_pairs)
                      bitset == BitAnd(BitAnd(number_bitset, BitNot(as_bit(pair))),
                                       BitNot(as_bit(low_card)))
                  IN  new_two_pair(pair, low_card, highest_card_in_set(bitset))
             ELSE new_pair(pair, ClearLowestN(BitAnd(number_bitset, BitNot(as_bit(pair))), 2))
        ELSE new_high_card(ClearLowestN(number_bitset, 2))

(***************************************************************************)
(* Standard poker rules, stated on (suit, number) pairs and independent of *)
(* the evaluator: the score of a 5-card hand is its category followed by   *)
(* its ranks ordered by multiplicity and then by rank; the value of a      *)
(* 7-card hand is the best score among its 21 five-card subsets.           *)
(***************************************************************************)
RanksOf(S) == {c[2] : c \in S}

TimesIn(S, r) == Cardinality({c \in S : c[2] = r})

SameSuit(S) == \E s \in Suit : \A c \in S : c[1] = s

\* High card of the run formed by five cards, 0 when they form none.
RunHigh(S) ==
    LET R == RanksOf(S)
    IN  IF Cardinality(R) # 5 THEN 0
        ELSE IF SetMax(R) - SetMin(R) = 4 THEN SetMax(R)
        ELSE IF R = {Ace, Two, Three, Four, Five} THEN Five
        ELSE 0

Category(S) ==
    LET mult == {TimesIn(S, r) : r \in RanksOf(S)}
        pairs == {r \in RanksOf(S) : TimesIn(S, r) = 2}
    IN  IF RunHigh(S) # 0 /\ SameSuit(S) THEN StraightFlush
        ELSE IF 4 \in mult THEN FourOfAKind
        ELSE IF 3 \in mult /\ 2 \in mult THEN FullHouse
        ELSE IF SameSuit(S) THEN Flush
        ELSE IF RunHigh(S) # 0 THEN Straight
        ELSE IF 3 \in mult THEN ThreeOfAKind
        ELSE IF Cardinality(pairs) = 2 THEN TwoPair
        ELSE IF Cardinality(pairs) = 1 THEN Pair
        ELSE HighCard

\* The ranks of S, most frequent first and highest first, as base-16 digits.
RECURSIVE Digits(_, _, _)
Digits(S, R, place) ==
    IF R = {} \/ place < 0 THEN 0
    ELSE LET r == CHOOSE x \in R : \A y \in R :
                      TimesIn(S, y) * 16 + y <= TimesIn(S, x) * 16 + x
         IN  r * 16^place + Digits(S, R \ {r}, place - 1)

Score5(S) ==
    Category(S) * 16^5 +
        (IF RunHigh(S) # 0 THEN RunHigh(S) * 16^4 ELSE Digits(S, RanksOf(S), 4))

FiveOf(H) == {H \ {x, y} : x \in H, y \in H} \ {H \ {x} : x \in H}

BestFive(H) == SetMax({Score5(S) : S \in FiveOf(H)})

\* The hand as the caller builds it: Card::new(suit, number) for each card.
Cards(hand) == [i \in 1..Len(hand) |-> Card_new(hand[i][1], hand[i][2])]

(***************************************************************************)
(* Integer overflow.  `x - 1` on a u16 holding 0 panics when the build has *)
(* overflow checks (debug profile) and wraps otherwise (release profile).  *)
(* ClearUnderflows(x, n): some of the n steps `x &= x - 1` meets x = 0.    *)
(***************************************************************************)
RECURSIVE ClearUnderflows(_, _)
ClearUnderflows(x, n) ==
    IF n <= 0 THEN FALSE
    ELSE IF x = 0 THEN TRUE
    ELSE ClearUnderflows(ClearLowest(x), n - 1)

\* The arithmetic of evaluate_hand overflows on the path taken for cards.
evaluate_hand_overflows(cards) ==
    LET t == Tallies(cards)
        count_by_suit == t.count_by_suit
        count_by_number == t.count_by_number
        number_bitset == t.number_bitset
        number_by_suit_bitset == t.number_by_suit_bitset
        kind == evaluate_hand(cards).kind
        quads == {n \in Number : count_by_number[n] = 4}
        three_of_a_kind == check_for_three_of_a_kind(count_by_number)
        pair == check_for_pair(count_by_number)
        low_pairs == {n \in Two..(pair - 1) : count_by_number[n] = 2}
    IN  CASE kind = FourOfAKind ->
                BitAnd(number_bitset, BitNot(as_bit(SetMax(quads)))) = 0
          [] kind = Flush ->
                LET s == SetMin({u \in Suit : count_by_suit[u] >= 5})
                IN  ClearUnderflows(number_by_suit_bitset[s], count_by_suit[s] - 5)
          [] kind = ThreeOfAKind ->
                ClearUnderflows(BitAnd(number_bitset, BitNot(as_bit(three_of_a_kind))), 2)
          [] kind = TwoPair ->
                BitAnd(BitAnd(number_bitset, BitNot(as_bit(pair))),
                       BitNot(as_bit(SetMax(low_pairs)))) = 0
          [] kind = Pair ->
                ClearUnderflows(BitAnd(number_bitset, BitNot(as_bit(pair))), 2)
          [] kind = HighCard -> ClearUnderflows(number_bitset, 2)
          [] OTHER -> FALSE

(***************************************************************************)
(* Inputs of the evaluator: every 7-card hand made of one of the boards    *)
(* below and two further cards of the 52-card deck.                        *)
(***************************************************************************)
NumBoards == 4

AllBoards ==
    << {<<Clubs, King>>, <<Clubs, Queen>>, <<Clubs, Jack>>, <<Clubs, Ten>>, <<Hearts, Eight>>},
       {<<Clubs, King>>, <<Hearts, King>>, <<Clubs, Eight>>, <<Spades, Eight>>, <<Hearts, Five>>},
       {<<Hearts, Ace>>, <<Hearts, Two>>, <<Hearts, Three>>, <<Diamonds, Four>>, <<Spades, Nine>>},
       {<<Clubs, Ace>>, <<Clubs, King>>, <<Clubs, Queen>>, <<Clubs, Nine>>, <<Clubs, Five>>},
       {<<Diamonds, Ace>>, <<Clubs, King>>, <<Diamonds, King>>, <<Diamonds, Ten>>, <<Clubs, Nine>>} >>

Boards == {AllBoards[k] : k \in 1..(IF NumBoards < Len(AllBoards) THEN NumBoards ELSE Len(AllBoards))}

FullDeck == Suit \X Number

HandsOn(b) == {b \cup {c, d} : c \in FullDeck \ b, d \in FullDeck \ b} \ {b \cup {c} : c \in FullDeck}

\* The cards of a set in deck order (suit, then number).
RECURSIVE InOrder(_)
InOrder(S) ==
    IF S = {} THEN <<>>
    ELSE LET m == CHOOSE c \in S : \A d \in S : c[1] * 16 + c[2] <= d[1] * 16 + d[2]
         IN  <<m>> \o InOrder(S \ {m})

Hands == {InOrder(h) : h \in UNION {HandsOn(b) : b \in Boards}}

CardSet(hand) == {hand[i] : i \in 1..Len(hand)}

ValidHand(hand) == Len(hand) = 7 /\ Cardinality(CardSet(hand)) = 7 /\ CardSet(hand) \subseteq FullDeck

(***************************************************************************)
(* State                                                                   *)
(***************************************************************************)
VARIABLES
    pc,               \* position of the running call
    overflow_checks,  \* the build panics on integer overflow (debug profile)
    hand,             \* evaluate_hand: the 7 cards as (suit, number), in call order
    swaps,            \* how often the caller has reordered the cards
    result,           \* evaluate_hand: the returned HandEvaluation
    known,            \* evaluations already returned, each with the rules' score of its hand
    lhs, rhs,         \* cmp: the two HandEvaluation values compared
    ordering,         \* cmp: the returned Ordering
    hand1, hand2,     \* compute_result: the two starting hands (packed cards)
    deck,             \* compute_result: the working deck
    board,            \* compute_result: positions in deck of the current combination
    tie_count, win_count, loss_count, count,  \* compute_result: the counters
    suits, numbers,   \* Card::new: the (suit, number) arguments of two calls
    cards             \* Card::new: the two cards built

evalVars == <<hand, swaps, result, known>>
cmpVars == <<lhs, rhs, ordering>>
computeVars == <<hand1, hand2, deck, board, tie_count, win_count, loss_count, count>>
cardVars == <<suits, numbers, cards>>
vars == <<pc, overflow_checks, evalVars, cmpVars, computeVars, cardVars>>

NoResult == [kind |-> -1, values |-> <<0, 0, 0>>]

\* The parts of the state a specification does not use.
EvalIdle == hand = <<>> /\ swaps = 0 /\ result = NoResult /\ known = {}
CmpIdle == lhs = NoResult /\ rhs = NoResult /\ ordering = "None"
CardIdle == suits = <<>> /\ numbers = <<>> /\ cards = <<>>
ComputeIdle ==
    /\ hand1 = <<>> /\ hand2 = <<>> /\ deck = <<>> /\ board = <<>>
    /\ tie_count = 0 /\ win_count = 0 /\ loss_count = 0 /\ count = 0

(***************************************************************************)
(* evaluate_hand called on one hand, the evaluations of the other hands    *)
(* being at hand for comparison.                                           *)
(***************************************************************************)
InitEval ==
    /\ pc = "start"
    /\ overflow_checks = TRUE
    /\ known = {<<evaluate_hand(Cards(h)), BestFive(CardSet(h))>> : h \in Hands}
    /\ hand \in Hands
    /\ swaps = 0
    /\ result = NoResult
    /\ CmpIdle /\ ComputeIdle /\ CardIdle

Evaluate ==
    /\ pc = "start"
    /\ IF overflow_checks /\ evaluate_hand_overflows(Cards(hand))
       THEN pc' = "panicked" /\ result' = result
       ELSE pc' = "done" /\ result' = evaluate_hand(Cards(hand))
    /\ UNCHANGED <<overflow_checks, hand, swaps, known, cmpVars, computeVars, cardVars>>

NextEval == Evaluate

SpecEval == InitEval /\ [][NextEval]_vars

\* C1: the order of two evaluations is the order of the best five-card hands
\* under the rules, and they are equal exactly when those hands tie.
C1_OrderMatchesRules ==
    pc = "done" =>
        LET mine == BestFive(CardSet(hand))
        IN  \A o \in known :
                /\ (cmp(result, o[1]) = "Greater") <=> (mine > o[2])
                /\ (cmp(result, o[1]) = "Equal") <=> (mine = o[2])

\* C1 witness: a finished evaluation that beats another hand of the same
\* kind, so that the tiebreak bytes decide.
C1_Witness ==
    /\ pc = "done"
    /\ result.kind = Flush
    /\ \E o \in known : o[1].kind = Flush /\ cmp(result, o[1]) = "Greater"

(***************************************************************************)
(* Facts about a 7-card hand, stated on its (suit, number) cards.          *)
(***************************************************************************)
\* High cards of the runs of five consecutive ranks within the rank set R,
\* the Ace counting high or low.
RunsIn(R) ==
    {h \in Five..Ace : \A r \in (h - 4)..h : (IF r = 1 THEN Ace ELSE r) \in R}

\* High cards of the runs held within a single suit.
SuitedRuns(H) == UNION {RunsIn(RanksOf({c \in H : c[1] = s})) : s \in Suit}

HasFlush(H) == \E s \in Suit : Cardinality({c \in H : c[1] = s}) >= 5

RanksHeld(H, k) == {r \in RanksOf(H) : TimesIn(H, r) = k}

RoyalFlushHand ==
    {<<Clubs, Ace>>, <<Clubs, King>>, <<Clubs, Queen>>, <<Clubs, Jack>>, <<Clubs, Ten>>,
     <<Hearts, Eight>>, <<Hearts, Five>>}

\* C3: a hand holding five consecutive ranks of one suit (Ace high or low)
\* evaluates to StraightFlush of the highest such run; the royal flush of
\* the test evaluates to StraightFlush(Ace) and beats every FourOfAKind.
C3_StraightFlushFirst ==
    pc = "done" =>
        LET H == CardSet(hand)
        IN  /\ SuitedRuns(H) # {} =>
                 /\ result.kind = StraightFlush
                 /\ result.values[1] = SetMax(SuitedRuns(H))
            /\ H = RoyalFlushHand =>
                 /\ result = new_straight_flush(Ace)
                 /\ \A q \in Number, k \in Number :
                        cmp(result, new_four_of_a_kind(q, k)) = "Greater"

C3_Witness == pc = "done" /\ CardSet(hand) = RoyalFlushHand /\ result.kind = StraightFlush

\* C4: a rank set with A,2,3,4,5 and no higher run makes check_for_straight
\* return Five; such a hand without flush, full house or quads evaluates to
\* Straight(Five), below Straight(Six); of several runs the highest is returned.
C4_WheelAndHighestRun ==
    pc = "done" =>
        LET H == CardSet(hand)
            runs == RunsIn(RanksOf(H))
            found == check_for_straight(Tallies(Cards(hand)).number_bitset)
        IN  /\ runs = {Five} => found = Five
            /\ (runs = {Five} /\ ~HasFlush(H) /\ RanksHeld(H, 4) = {}
                    /\ ~(RanksHeld(H, 3) # {} /\ Cardinality(RanksHeld(H, 2) \cup RanksHeld(H, 3)) >= 2)) =>
                 /\ result = new_straight(Five)
                 /\ cmp(result, new_straight(Six)) = "Less"
            /\ runs # {} => found = SetMax(runs)

C4_Witness ==
    /\ pc = "done"
    /\ RunsIn(RanksOf(CardSet(hand))) = {Five}
    /\ ~HasFlush(CardSet(hand))
    /\ result = new_straight(Five)

\* C5: two triplets x > y evaluate to FullHouse(x, y); with a triplet and no
\* quads or straight flush, the pair of the full house is the highest other
\* rank held at least twice.
C5_FullHouseSecondTriplet ==
    pc = "done" =>
        LET H == CardSet(hand)
            trips == RanksHeld(H, 3)
            others == {r \in RanksOf(H) : r # SetMax(trips) /\ TimesIn(H, r) >= 2}
        IN  /\ Cardinality(trips) = 2 =>
                 result = new_full_house(SetMax(trips), SetMin(trips))
            /\ (trips # {} /\ RanksHeld(H, 4) = {} /\ SuitedRuns(H) = {} /\ others # {}) =>
                 result = new_full_house(SetMax(trips), SetMax(others))

C5_Witness ==
    /\ pc = "done"
    /\ Cardinality(RanksHeld(CardSet(hand), 3)) = 2
    /\ result.kind = FullHouse

\* The bytes of an evaluation that the constructors fill with a Number
\* (the other bytes hold the halves of a bitset, or zero).
RankBytes(e) ==
    CASE e.kind \in {StraightFlush, Straight} -> {e.values[1]}
      [] e.kind \in {FourOfAKind, FullHouse} -> {e.values[1], e.values[2]}
      [] e.kind \in {ThreeOfAKind, Pair} -> {e.values[1]}
      [] e.kind = TwoPair -> {e.values[1], e.values[2], e.values[3]}
      [] OTHER -> {}

\* C12: for 7 distinct cards of one deck evaluate_hand returns an evaluation
\* and no step fails: the build that checks overflow never panics (no
\* clear-lowest-bit step on an empty bitset, no highest_card_in_set of an
\* empty bitset), and every byte that holds a rank is a Number, 2..14.
C12_NoFailingStep ==
    ValidHand(hand) =>
        /\ overflow_checks
        /\ pc # "panicked"
        /\ pc = "done" =>
            /\ result.kind \in HandKind
            /\ RankBytes(result) \subseteq Number

\* Two pair with an ace kicker was returned: the kicker byte comes from
\* highest_card_in_set applied to a bitset whose top bit is the highest one
\* a hand can set.
C12_Witness ==
    /\ pc = "done"
    /\ ValidHand(hand)
    /\ result.kind = TwoPair
    /\ result.values[3] = Ace

\* The ranks whose bits are set in a u16 bitset.
RanksIn(bitset) == {n \in 0..15 : Shr(bitset, n) % 2 = 1}

\* The k highest ranks of R (all of R when it has fewer).
TopRanks(R, k) == {r \in R : Cardinality({q \in R : q > r}) < k}

\* The bitset whose high byte and low byte are hi and lo.
FromBytes(hi, lo) == hi * 256 + lo

\* C13 as stated: a hand classified as Pair has the pair's rank in the first
\* byte and, in the other two, a bitset holding exactly the 2 highest ranks
\* of the hand other than the pair's.
C13_PairTopTwoKickers ==
    (pc = "done" /\ result.kind = Pair) =>
        LET H == CardSet(hand)
            pair == SetMax(RanksHeld(H, 2))
        IN  /\ result.values[1] = pair
            /\ RanksIn(FromBytes(result.values[2], result.values[3]))
                   = TopRanks(RanksOf(H) \ {pair}, 2)

\* C13: a hand classified as Pair holds one rank twice and five others once;
\* the first byte is the pair's rank and the other two are the high and low
\* byte of a bitset holding exactly the 3 highest of the five other ranks.
C13_PairTopThreeKickers ==
    (pc = "done" /\ result.kind = Pair) =>
        LET H == CardSet(hand)
            pair == SetMax(RanksHeld(H, 2))
        IN  /\ RanksHeld(H, 2) = {pair}
            /\ Cardinality(RanksOf(H) \ {pair}) = 5
            /\ result.values[1] = pair
            /\ RanksIn(FromBytes(result.values[2], result.values[3]))
                   = TopRanks(RanksOf(H) \ {pair}, 3)

\* A pair of nines came back with kickers in both bytes of the bitset: the
\* ace in the high byte, two ranks below eight in the low byte.
C13_Witness ==
    /\ pc = "done"
    /\ result.kind = Pair
    /\ result.values[1] = Nine
    /\ result.values[2] = as_bit(Ace) \div 256
    /\ Cardinality(RanksIn(result.values[3])) = 2

\* C14: a hand classified as ThreeOfAKind has the rank held three times in
\* the first byte, and the other two bytes are the high and the low byte of
\* a bitset holding exactly the two highest ranks other than the triplet's.
C14_TripletThenTwoKickers ==
    (pc = "done" /\ result.kind = ThreeOfAKind) =>
        LET H == CardSet(hand)
            triplet == SetMax(RanksHeld(H, 3))
        IN  /\ RanksHeld(H, 3) = {triplet}
            /\ result.values[1] = triplet
            /\ result.values[2] \in 0..255 /\ result.values[3] \in 0..255
            /\ RanksIn(FromBytes(result.values[2], result.values[3]))
                   = TopRanks(RanksOf(H) \ {triplet}, 2)
            /\ Cardinality(TopRanks(RanksOf(H) \ {triplet}, 2)) = 2

\* Three of a kind came back with one kicker in each byte of the bitset.
C14_Witness ==
    /\ pc = "done"
    /\ result.kind = ThreeOfAKind
    /\ Cardinality(RanksIn(result.values[2])) = 1
    /\ Cardinality(RanksIn(result.values[3])) = 1

\* The cards of hand H that are of suit s.
OfSuit(H, s) == {c \in H : c[1] = s}

\* C15: a hand classified as Flush holds 5, 6 or 7 cards of one suit, and
\* the bitset of the result holds exactly 5 ranks, the 5 highest among the
\* cards of that suit; no rank held in other suits only is in it.
C15_FlushTopFiveOfSuit ==
    (pc = "done" /\ result.kind = Flush) =>
        LET H == CardSet(hand)
            flush_suits == {s \in Suit : Cardinality(OfSuit(H, s)) >= 5}
            bitset == RanksIn(FromBytes(result.values[1], result.values[2]))
        IN  /\ Cardinality(flush_suits) = 1
            /\ \A s \in flush_suits :
                /\ Cardinality(bitset) = 5
                /\ bitset = TopRanks(RanksOf(OfSuit(H, s)), 5)
                /\ bitset \cap (RanksOf(H) \ RanksOf(OfSuit(H, s))) = {}
            /\ result.values[3] = 0

\* A flush came back for seven cards of one suit: two ranks were cleared.
C15_Witness ==
    /\ pc = "done"
    /\ result.kind = Flush
    /\ \E s \in Suit : Cardinality(OfSuit(CardSet(hand), s)) = 7

\* C16: a hand classified as TwoPair has, in this order, the highest rank
\* held exactly twice, the next-highest rank held exactly twice, and the
\* highest rank of the hand other than those two; with three pairs that
\* kicker is the higher of the third pair's rank and the single card's rank.
C16_TwoPairsThenKicker ==
    (pc = "done" /\ result.kind = TwoPair) =>
        LET H == CardSet(hand)
            pairs == RanksHeld(H, 2)
            high_card == SetMax(pairs)
            low_card == SetMax(pairs \ {high_card})
            others == RanksOf(H) \ {high_card, low_card}
        IN  /\ Cardinality(pairs) >= 2
            /\ result.values = <<high_card, low_card, SetMax(others)>>
            /\ Cardinality(pairs) = 3 =>
                  \E single \in RanksHeld(H, 1) :
                     /\ others = {SetMin(pairs), single}
                     /\ result.values[3] =
                          IF SetMin(pairs) > single THEN SetMin(pairs) ELSE single

\* Two pair came back for a hand of three pairs whose single card is the
\* lowest: the kicker is the third pair's rank.
C16_Witness ==
    /\ pc = "done"
    /\ result.kind = TwoPair
    /\ Cardinality(RanksHeld(CardSet(hand), 2)) = 3
    /\ result.values[3] \in RanksHeld(CardSet(hand), 2)

(***************************************************************************)
(* evaluate_hand called by a caller that passes the cards in any order:    *)
(* the hands of test_hand_evaluator, reordered by transpositions.          *)
(***************************************************************************)
MaxSwaps == 2

TestHands ==
    { <<<<Clubs, Ace>>, <<Clubs, King>>, <<Clubs, Queen>>, <<Clubs, Jack>>, <<Clubs, Ten>>,
        <<Hearts, Eight>>, <<Hearts, Five>>>>,
      <<<<Clubs, Ace>>, <<Clubs, Ten>>, <<Spades, Ten>>, <<Hearts, Ten>>, <<Diamonds, Ten>>,
        <<Hearts, Eight>>, <<Hearts, Five>>>>,
      <<<<Clubs, King>>, <<Hearts, King>>, <<Clubs, Nine>>, <<Clubs, Eight>>, <<Spades, Eight>>,
        <<Hearts, Eight>>, <<Hearts, Five>>>>,
      <<<<Clubs, Ace>>, <<Clubs, King>>, <<Clubs, Queen>>, <<Clubs, Jack>>, <<Clubs, Nine>>,
        <<Clubs, Eight>>, <<Clubs, Five>>>>,
      <<<<Clubs, King>>, <<Clubs, Queen>>, <<Clubs, Jack>>, <<Clubs, Nine>>, <<Clubs, Eight>>,
        <<Diamonds, Eight>>, <<Clubs, Five>>>>,
      <<<<Clubs, Ace>>, <<Clubs, King>>, <<Clubs, Queen>>, <<Clubs, Jack>>, <<Hearts, Ten>>,
        <<Hearts, Eight>>, <<Hearts, Five>>>>,
      <<<<Clubs, Ace>>, <<Hearts, King>>, <<Clubs, Nine>>, <<Clubs, Eight>>, <<Spades, Eight>>,
        <<Hearts, Eight>>, <<Hearts, Five>>>>,
      <<<<Diamonds, Ace>>, <<Clubs, King>>, <<Diamonds, King>>, <<Diamonds, Ten>>, <<Clubs, Nine>>,
        <<Clubs, Six>>, <<Hearts, Six>>>>,
      <<<<Clubs, King>>, <<Diamonds, King>>, <<Diamonds, Queen>>, <<Diamonds, Ten>>, <<Clubs, Nine>>,
        <<Clubs, Six>>, <<Hearts, Six>>>>,
      <<<<Clubs, Ace>>, <<Diamonds, Ace>>, <<Clubs, King>>, <<Diamonds, Ten>>, <<Clubs, Nine>>,
        <<Clubs, Eight>>, <<Hearts, Six>>>>,
      <<<<Clubs, Ace>>, <<Diamonds, Ace>>, <<Diamonds, Queen>>, <<Diamonds, Ten>>, <<Clubs, Nine>>,
        <<Clubs, Eight>>, <<Hearts, Six>>>>,
      <<<<Clubs, Ace>>, <<Clubs, Queen>>, <<Diamonds, Queen>>, <<Diamonds, Ten>>, <<Clubs, Nine>>,
        <<Clubs, Eight>>, <<Hearts, Six>>>>,
      <<<<Clubs, Ace>>, <<Clubs, King>>, <<Diamonds, Queen>>, <<Diamonds, Ten>>, <<Clubs, Nine>>,
        <<Clubs, Eight>>, <<Hearts, Six>>>>,
      <<<<Clubs, Ace>>, <<Clubs, King>>, <<Diamonds, Queen>>, <<Diamonds, Ten>>, <<Clubs, Nine>>,
        <<Clubs, Eight>>, <<Hearts, Five>>>>,
      <<<<Clubs, King>>, <<Diamonds, Queen>>, <<Diamonds, Ten>>, <<Clubs, Nine>>, <<Clubs, Eight>>,
        <<Hearts, Six>>, <<Clubs, Four>>>> }

InitPermute ==
    /\ pc = "start"
    /\ overflow_checks = TRUE
    /\ hand \in TestHands
    /\ swaps = 0
    /\ result = NoResult
    /\ known = {}
    /\ CmpIdle /\ ComputeIdle /\ CardIdle

\* The caller exchanges two of the cards before the call.
Reorder(i, j) ==
    /\ pc = "start"
    /\ swaps < MaxSwaps
    /\ hand' = [hand EXCEPT ![i] = hand[j], ![j] = hand[i]]
    /\ swaps' = swaps + 1
    /\ UNCHANGED <<pc, overflow_checks, result, known, cmpVars, computeVars, cardVars>>

NextPermute ==
    \/ \E i \in 1..6 : \E j \in (i + 1)..7 : Reorder(i, j)
    \/ Evaluate

SpecPermute == InitPermute /\ [][NextPermute]_vars

\* C2: the evaluation of a hand does not depend on the order of its cards:
\* whatever the order passed, it is the evaluation of the cards in deck order.
C2_OrderOfCardsIrrelevant ==
    pc = "done" => result = evaluate_hand(Cards(InOrder(CardSet(hand))))

C2_Witness == pc = "done" /\ swaps > 0 /\ hand # InOrder(CardSet(hand)) /\ result.kind = Pair

(***************************************************************************)
(* The derived order of HandEvaluation, applied to two values.             *)
(***************************************************************************)
MaxByte == 2

Evaluations == {HandEvaluation(k, v) : k \in HandKind, v \in [1..3 -> 0..MaxByte]}

InitCmp ==
    /\ pc = "start"
    /\ overflow_checks = TRUE
    /\ lhs \in Evaluations
    /\ rhs \in Evaluations
    /\ ordering = "None"
    /\ EvalIdle /\ ComputeIdle /\ CardIdle

Compare ==
    /\ pc = "start"
    /\ ordering' = cmp(lhs, rhs)
    /\ pc' = "done"
    /\ UNCHANGED <<overflow_checks, lhs, rhs, evalVars, computeVars, cardVars>>

NextCmp == Compare

SpecCmp == InitCmp /\ [][NextCmp]_vars

\* C10: evaluations are ordered by kind (HighCard < Pair < TwoPair <
\* ThreeOfAKind < Straight < Flush < FullHouse < FourOfAKind < StraightFlush)
\* and, for equal kinds only, lexicographically by the three bytes; they are
\* equal exactly when kind and bytes are equal.
C10_KindThenBytes ==
    /\ HighCard < Pair /\ Pair < TwoPair /\ TwoPair < ThreeOfAKind /\ ThreeOfAKind < Straight
    /\ Straight < Flush /\ Flush < FullHouse /\ FullHouse < FourOfAKind /\ FourOfAKind < StraightFlush
    /\ pc = "done" /\ ordering # "None" =>
        LET firstDiff == {i \in 1..3 : lhs.values[i] # rhs.values[i]}
        IN  /\ lhs.kind > rhs.kind => ordering = "Greater"
            /\ lhs.kind < rhs.kind => ordering = "Less"
            /\ (lhs.kind = rhs.kind /\ firstDiff # {}) =>
                 ordering = (IF lhs.values[SetMin(firstDiff)] > rhs.values[SetMin(firstDiff)]
                             THEN "Greater" ELSE "Less")
            /\ (ordering = "Equal") <=> (lhs.kind = rhs.kind /\ lhs.values = rhs.values)
            /\ ordering \in {"Less", "Equal", "Greater"}

C10_Witness ==
    /\ pc = "done"
    /\ ordering = "Greater"
    /\ lhs.kind > rhs.kind
    /\ lhs.values[1] < rhs.values[1]

(***************************************************************************)
(* compute_result(hand1, hand2)                                            *)
(***************************************************************************)
\* The deck loop runs over all four suits and, in the model, over the
\* DeckNumbers highest numbers only (the program: Two..=Ace).
DeckNumbers == 3

LowNumber == Ace - DeckNumbers + 1

Suit_from_u8(value) ==
    CASE value = 0 -> Hearts
      [] value = 1 -> Diamonds
      [] value = 2 -> Clubs
      [] value = 3 -> Spades

Number_from_u8(value) == CHOOSE n \in Number : n = value

\* The cards the deck loop visits, in its order.
DeckLoop ==
    [k \in 1..(4 * DeckNumbers) |->
        Card_new(Suit_from_u8((k - 1) \div DeckNumbers),
                 Number_from_u8(LowNumber + ((k - 1) % DeckNumbers)))]

\* Variant: the second card of hand2 is not taken out of the deck.
BuildDeck_keeps_last_hole_card(h1, h2) ==
    SelectSeq(DeckLoop, LAMBDA card :
        card # h1[1] /\ card # h1[2] /\ card # h2[1] /\ card # h2[1])

BuildDeck(h1, h2) ==
    SelectSeq(DeckLoop, LAMBDA card :
        card # h1[1] /\ card # h1[2] /\ card # h2[1] /\ card # h2[2])

\* itertools tuple_combinations of 5: the positions of the combination after
\* c in lexicographic order over n items, <<>> when c is the last one.
NextCombination(c, n) ==
    LET movable == {k \in 1..5 : c[k] < n - (5 - k)}
    IN  IF movable = {} THEN <<>>
        ELSE LET k == SetMax(movable)
             IN  [i \in 1..5 |-> IF i < k THEN c[i] ELSE c[k] + 1 + (i - k)]

FirstCombination(n) == IF n < 5 THEN <<>> ELSE <<1, 2, 3, 4, 5>>

\* Variant: equal evaluations are not counted.
match_arm_without_tie(ord) ==
    CASE ord = "Equal" -> "none"
      [] ord = "Greater" -> "win"
      [] ord = "Less" -> "loss"

\* Variant: the arms of Greater and Less exchanged.
match_arm_exchanged(ord) ==
    CASE ord = "Equal" -> "tie"
      [] ord = "Greater" -> "loss"
      [] ord = "Less" -> "win"

\* The arm of `match a_result.cmp(&b_result)` that is taken.
match_arm(ord) ==
    CASE ord = "Equal" -> "tie"
      [] ord = "Greater" -> "win"
      [] ord = "Less" -> "loss"

\* The calls of the model: the two hands of the entry point and of the
\* equity example, and hands that repeat a card.
StartingHands ==
    { <<<<Card_new(Spades, Ace), Card_new(Clubs, King)>>,
        <<Card_new(Hearts, Queen), Card_new(Spades, Queen)>>>>,
      <<<<Card_new(Hearts, Queen), Card_new(Hearts, King)>>,
        <<Card_new(Spades, Two), Card_new(Hearts, Two)>>>>,
      <<<<Card_new(Spades, Ace), Card_new(Clubs, King)>>,
        <<Card_new(Spades, Ace), Card_new(Spades, Queen)>>>>,
      <<<<Card_new(Hearts, Ace), Card_new(Hearts, Ace)>>,
        <<Card_new(Hearts, Queen), Card_new(Spades, Queen)>>>> }

InitCompute ==
    /\ pc = "start"
    /\ overflow_checks \in BOOLEAN
    /\ \E hs \in StartingHands : hand1 = hs[1] /\ hand2 = hs[2]
    /\ deck = <<>> /\ board = <<>>
    /\ tie_count = 0 /\ win_count = 0 /\ loss_count = 0 /\ count = 0
    /\ EvalIdle /\ CmpIdle /\ CardIdle

\* Lines 388-401: the working deck and the zeroed counters.
MakeDeck ==
    /\ pc = "start"
    /\ deck' = BuildDeck(hand1, hand2)
    /\ board' = FirstCombination(Len(deck'))
    /\ tie_count' = 0 /\ win_count' = 0 /\ loss_count' = 0 /\ count' = 0
    /\ pc' = "loop"
    /\ UNCHANGED <<overflow_checks, hand1, hand2, evalVars, cmpVars, cardVars>>

\* Lines 403-415: one iteration of the loop over the combinations.
Step ==
    /\ pc = "loop"
    /\ board # <<>>
    /\ LET hand_a == <<deck[board[1]], deck[board[2]], deck[board[3]], deck[board[4]],
                       deck[board[5]], hand1[1], hand1[2]>>
           hand_b == <<deck[board[1]], deck[board[2]], deck[board[3]], deck[board[4]],
                       deck[board[5]], hand2[1], hand2[2]>>
       IN  IF overflow_checks /\ (evaluate_hand_overflows(hand_a) \/ evaluate_hand_overflows(hand_b))
           THEN /\ pc' = "panicked"
                /\ UNCHANGED <<board, tie_count, win_count, loss_count, count>>
           ELSE \E a_result \in {evaluate_hand(hand_a)} : \E b_result \in {evaluate_hand(hand_b)} :
                \E arm \in {match_arm(cmp(a_result, b_result))} :
                    /\ tie_count' = tie_count + (IF arm = "tie" THEN 1 ELSE 0)
                    /\ win_count' = win_count + (IF arm = "win" THEN 1 ELSE 0)
                    /\ loss_count' = loss_count + (IF arm = "loss" THEN 1 ELSE 0)
                    /\ count' = count + 1
                    /\ board' = NextCombination(board, Len(deck))
                    /\ pc' = "loop"
    /\ UNCHANGED <<overflow_checks, hand1, hand2, deck, evalVars, cmpVars, cardVars>>

\* Lines 417-422: the result is returned once the combinations are exhausted.
Return ==
    /\ pc = "loop"
    /\ board = <<>>
    /\ pc' = "done"
    /\ UNCHANGED <<overflow_checks, evalVars, cmpVars, computeVars, cardVars>>

NextCompute == MakeDeck \/ Step \/ Return

SpecCompute == InitCompute /\ [][NextCompute]_vars

(***************************************************************************)
(* Properties of compute_result                                            *)
(***************************************************************************)
HoleCards == {hand1[1], hand1[2], hand2[1], hand2[2]}

\* Some card is passed more than once in the starting hands.
Duplicated == Cardinality(HoleCards) < 4

\* A board has been processed by this step.
BoardProcessed == pc = "loop" /\ pc' = "loop"

OneCounterBumped ==
    /\ count' = count + 1
    /\ win_count' - win_count \in {0, 1}
    /\ loss_count' - loss_count \in {0, 1}
    /\ tie_count' - tie_count \in {0, 1}
    /\ (win_count' + loss_count' + tie_count') = (win_count + loss_count + tie_count) + 1

\* C6: the three outcome counters always add up to count, and a processed
\* board adds exactly 1 to count and to exactly one of the three.
C6_CountersAddUp ==
    /\ [](win_count + loss_count + tie_count = count)
    /\ [][(BoardProcessed => OneCounterBumped)
          /\ (count' # count => BoardProcessed)]_vars

C6_Witness == pc = "done" /\ win_count > 0 /\ loss_count > 0 /\ tie_count > 0

\* C7 (as claimed): a call whose starting hands repeat a card does not
\* return counts.
C7_DuplicateCardRejected == pc = "done" => ~Duplicated

\* A HandEvaluation as one number: kind, then the three bytes.
Key(e) == ((e.kind * 256 + e.values[1]) * 256 + e.values[2]) * 256 + e.values[3]

BoardCards == {deck[board[i]] : i \in 1..5}

\* C8: a processed board counts as a win exactly when hand1 with the board
\* evaluates strictly greater than hand2 with the board, as a loss when
\* strictly smaller, as a tie when equal, and in one counter only.
C8_OutcomeFollowsEvaluation ==
    [][BoardProcessed =>
        LET a == Key(evaluate_hand(<<deck[board[1]], deck[board[2]], deck[board[3]],
                                     deck[board[4]], deck[board[5]], hand1[1], hand1[2]>>))
            b == Key(evaluate_hand(<<deck[board[1]], deck[board[2]], deck[board[3]],
                                     deck[board[4]], deck[board[5]], hand2[1], hand2[2]>>))
        IN  /\ (win_count' = win_count + 1) <=> (a > b)
            /\ (loss_count' = loss_count + 1) <=> (a < b)
            /\ (tie_count' = tie_count + 1) <=> (a = b)
            /\ OneCounterBumped]_vars

C8_Witness == pc = "loop" /\ board # <<>> /\ win_count > 0 /\ loss_count > 0 /\ tie_count > 0

RECURSIVE Choose(_, _)
Choose(n, k) ==
    IF k = 0 THEN 1
    ELSE IF n < k THEN 0
    ELSE (Choose(n - 1, k - 1) * n) \div k

\* Number of 5-combinations of n positions that precede c in lexicographic order.
LexRank(c, n) ==
    Choose(n, 5) - 1 - (Choose(n - c[1], 5) + Choose(n - c[2], 4) + Choose(n - c[3], 3)
                        + Choose(n - c[4], 2) + Choose(n - c[5], 1))

DeckLoopCards == {DeckLoop[k] : k \in 1..Len(DeckLoop)}

\* C9: for disjoint hands of distinct cards the working deck is the deck
\* without the hole cards, the boards are its 5-subsets, each met once in
\* lexicographic order, and the returned count is C(deck size - 4, 5), which
\* is C(48,5) = 1,712,304 for the 52 cards.
C9_EveryBoardOnce ==
    /\ Choose(4 * Cardinality(Number) - 4, 5) = 1712304
    /\ (pc \in {"loop", "done"} /\ ~Duplicated) =>
        /\ {deck[i] : i \in 1..Len(deck)} = DeckLoopCards \ HoleCards
        /\ Cardinality({deck[i] : i \in 1..Len(deck)}) = Len(deck)
        /\ board # <<>> =>
             /\ \A i \in 1..5 : board[i] \in 1..Len(deck)
             /\ \A i \in 1..4 : board[i] < board[i + 1]
             /\ BoardCards \cap HoleCards = {}
             /\ count = LexRank(board, Len(deck))
        /\ (pc = "loop" /\ board = <<>>) => count = Choose(Len(deck), 5)
        /\ pc = "done" =>
             /\ count = Choose(Len(deck), 5)
             /\ HoleCards \subseteq DeckLoopCards =>
                    count = Choose(4 * DeckNumbers - 4, 5)

C9_Witness ==
    /\ pc = "done"
    /\ ~Duplicated
    /\ HoleCards \subseteq DeckLoopCards
    /\ count = Choose(Len(DeckLoop) - 4, 5)
    /\ count > 1

(***************************************************************************)
(* Card::new and its projections: two calls with arguments drawn from all  *)
(* suits and numbers.                                                      *)
(***************************************************************************)
InitCard ==
    /\ pc = "start"
    /\ overflow_checks = TRUE
    /\ suits \in Suit \X Suit
    /\ numbers \in Number \X Number
    /\ cards = <<>>
    /\ EvalIdle /\ CmpIdle /\ ComputeIdle

NewCards ==
    /\ pc = "start"
    /\ cards' = [i \in 1..2 |-> Card_new(suits[i], numbers[i])]
    /\ pc' = "done"
    /\ UNCHANGED <<overflow_checks, suits, numbers, evalVars, cmpVars, computeVars>>

NextCard == NewCards

SpecCard == InitCard /\ [][NextCard]_vars

\* C11: for every suit s and number r, Card::new(s, r).suit() = s and
\* Card::new(s, r).number() = r, and two cards built by Card::new are equal
\* exactly when their suits and their numbers are both equal.
C11_CardRoundTrip ==
    cards # <<>> =>
        /\ \A i \in 1..2 :
            /\ Card_suit(cards[i]) = suits[i]
            /\ Card_number(cards[i]) = numbers[i]
        /\ (cards[1] = cards[2]) <=> (suits[1] = suits[2] /\ numbers[1] = numbers[2])

\* The ace of spades and the ace of another suit have been built: the top
\* suit and the top number meet in one byte, and the cards differ in suit only.
C11_Witness ==
    /\ cards # <<>>
    /\ suits[1] = Spades /\ numbers[1] = Ace
    /\ numbers[2] = Ace /\ suits[2] # Spades
    /\ cards[1] # cards[2]

====
